---- MODULE Spec2Model ----
(***************************************************************************)
(* A model of src/src/scripts/image-carousel-scoped.ts: the scoped image   *)
(* carousel / lightbox controller.  One instance (closure of initCarousel) *)
(* per carousel root of the page; the host document (scroll lock, focus,   *)
(* animation-frame queue) is shared.                                       *)
(*                                                                         *)
(* JavaScript values are modelled as follows.                              *)
(*   - an optional field of an object is a field that is or is not in the  *)
(*     DOMAIN of the record (so `g.alt ?? p.alt` tests the DOMAIN);        *)
(*   - an array is a sequence; JS index i is TLA+ index i + 1;             *)
(*   - a number that may be NaN is a record [nan, val] (Num, NaN);         *)
(*   - a string whose characters matter (an attribute that is parsed, a    *)
(*     detail that is sniffed for markup) is a sequence of characters.     *)
(***************************************************************************)
EXTENDS Integers, Sequences, FiniteSets, TLC

----------------------------------------------------------------------------
(* Bounds of the model *)

\* animation-frame callbacks queued plus load listeners attached, per page
MaxInFlight == 2
\* how many of the required/optional role elements a host page may lack
MaxMissing == 2
\* range of the integers the pure index-wrapping function is tried on
MaxIndex == 7

----------------------------------------------------------------------------
(* JavaScript primitives *)

\* A JS number that is an integer, and NaN.
Num(n) == [nan |-> FALSE, val |-> n]
NaN == [nan |-> TRUE, val |-> 0]

\* JS remainder a % b (b > 0): truncated, takes the sign of the dividend.
JSRem(a, b) == IF a >= 0 THEN a % b ELSE -((-a) % b)

Digits == <<"0", "1", "2", "3", "4", "5", "6", "7", "8", "9">>
IsDigit(ch) == \E d \in 1..10 : Digits[d] = ch
DigitVal(ch) == (CHOOSE d \in 1..10 : Digits[d] = ch) - 1
IsSpace(ch) == ch = " "

RECURSIVE TrimLeft(_)
TrimLeft(s) == IF s # <<>> /\ IsSpace(Head(s)) THEN TrimLeft(Tail(s)) ELSE s
RECURSIVE TrimRight(_)
TrimRight(s) ==
  IF s # <<>> /\ IsSpace(s[Len(s)]) THEN TrimRight(SubSeq(s, 1, Len(s) - 1)) ELSE s

RECURSIVE DecimalValue(_)
DecimalValue(s) ==
  IF s = <<>> THEN 0 ELSE 10 * DecimalValue(SubSeq(s, 1, Len(s) - 1)) + DigitVal(s[Len(s)])

\* Number(str) for a string of the characters the model uses (spaces, a sign,
\* decimal digits, letters): white space is trimmed, the empty string is 0, an
\* optionally signed run of digits is its value, anything else is NaN.
Number(str) ==
  LET t == TrimRight(TrimLeft(str))
      signed == t # <<>> /\ Head(t) \in {"-", "+"}
      body == IF signed THEN Tail(t) ELSE t
  IN  IF t = <<>> THEN Num(0)
      ELSE IF body # <<>> /\ \A i \in 1..Len(body) : IsDigit(body[i])
           THEN Num(IF signed /\ Head(t) = "-" THEN -DecimalValue(body) ELSE DecimalValue(body))
           ELSE NaN

\* arr[i] is defined: i is an integer index of the array (NaN and out-of-range
\* indices read undefined).
HasIndex(arr, i) == ~i.nan /\ i.val >= 0 /\ i.val < Len(arr)
At(arr, i) == arr[i.val + 1]

----------------------------------------------------------------------------
(* Module-level helpers of the source *)

Letters ==
  {"a", "b", "c", "d", "e", "f", "g", "h", "i", "j", "k", "l", "m", "n", "o", "p", "q", "r",
   "s", "t", "u", "v", "w", "x", "y", "z", "A", "B", "C", "D", "E", "F", "G", "H", "I", "J",
   "K", "L", "M", "N", "O", "P", "Q", "R", "S", "T", "U", "V", "W", "X", "Y", "Z"}

\* /<[a-z][\s\S]*>/i.test(s), with !!s first: a '<', a letter right after it,
\* and a '>' anywhere later.
hasHTML(s) ==
  /\ s # <<>>
  /\ \E i \in 1..Len(s) : \E j \in 1..Len(s) :
       /\ s[i] = "<"
       /\ i + 1 <= Len(s) /\ s[i + 1] \in Letters
       /\ j >= i + 2 /\ s[j] = ">"

\* a mutant of clamp: clamp-to-edge instead of wrap-around
clampToEdge(i, len) ==
  IF len # 0 THEN (IF i < 0 THEN 0 ELSE IF i >= len THEN len - 1 ELSE i) ELSE 0

clamp(i, len) == IF len # 0 THEN JSRem(i + len, len) ELSE 0

----------------------------------------------------------------------------
(* The host page: role elements under a root, the data payload, elements *)

\* data-role labels the binder queries (lines 22-37)
Roles ==
  {"data", "modal", "overlay", "close", "image", "title", "content",
   "progress", "prev", "next", "thumbs", "open"}

\* The projects of the sample payload.  Project 0 has no gallery (one slide);
\* project 1 has an empty alt and a gallery of two entries, the first with
\* neither alt nor detail of its own, the second with both (its detail empty).
SampleProjects ==
  << [src |-> "a.jpg", alt |-> "Alpha", detail |-> <<"P", "l", "a", "i", "n">>],
     [src |-> "b.jpg", alt |-> "", detail |-> <<"<", "b", ">", "B", "<", "/", "b", ">">>,
      gallery |-> << [src |-> "b1.jpg"],
                     [src |-> "b2.jpg", alt |-> "Beta two", detail |-> <<>>] >>] >>

\* The text content of the data element: empty, or a text that JSON.parse
\* accepts (yielding `value`) or rejects.
DataTexts ==
  { [empty |-> TRUE, parses |-> FALSE, value |-> <<>>],
    [empty |-> FALSE, parses |-> FALSE, value |-> <<>>],
    [empty |-> FALSE, parses |-> TRUE, value |-> <<>>],
    [empty |-> FALSE, parses |-> TRUE, value |-> SampleProjects] }

\* JSON.parse(text): the parsed value, or a SyntaxError
JSONparse(text) == [threw |-> ~text.parses, value |-> text.value]

\* The open triggers of a root that has any: without a data-index attribute,
\* and with data-index "0", "1", "7", "-1", "ab".
Openers ==
  << [tag |-> "button"],
     [tag |-> "button", dataIndex |-> <<"0">>],
     [tag |-> "button", dataIndex |-> <<"1">>],
     [tag |-> "button", dataIndex |-> <<"7">>],
     [tag |-> "button", dataIndex |-> <<"-", "1">>],
     [tag |-> "button", dataIndex |-> <<"a", "b">>] >>

\* Elements that can hold the focus: <<root, role, n>>; the body; null.
Body == <<0, "body", 0>>
Null == <<0, "null", 0>>
CloseBtn(r) == <<r, "close", 0>>
OpenerEl(r, n) == <<r, "open", n>>

\* Keys and touch points the user produces.
Keys == {"Escape", "ArrowRight", "ArrowLeft", "Enter"}
TouchStarts == {<<100, 100>>}
TouchEnds == {<<100, 100>>, <<40, 105>>, <<100, 130>>, <<140, 100>>, <<141, 100>>}

\* Roots of a page: a set of present roles and a data text, DOM in its initial
\* state (modal hidden, nothing displayed), the script not yet run.
Markups ==
  {Roles \ M : M \in {S \in SUBSET Roles : Cardinality(S) <= MaxMissing}}

NewRoot(present, text) ==
  [ present |-> present, dataText |-> text,
    \* closure state of initCarousel (lines 55-59, 206-208)
    bound |-> FALSE, projects |-> <<>>, currentProject |-> Num(0),
    slides |-> <<>>, currentSlide |-> 0, lastFocused |-> Null,
    startX |-> 0, startY |-> 0, touching |-> FALSE,
    \* DOM under the root
    hidden |-> TRUE, ariaHidden |-> "true",
    img |-> [src |-> "", alt |-> "", opacity |-> "", transition |-> "",
             listeners |-> 0, loading |-> FALSE],
    title |-> "", content |-> [html |-> FALSE, text |-> <<>>],
    thumbs |-> <<>>, progress |-> "", preload |-> <<>> ]

NewDocument == [docOverflow |-> "", bodyOverflow |-> "", activeElement |-> Body]

\* The world a handler runs in: the roots (document order), the document, the
\* queue of requested animation-frame callbacks, and whether the handler threw.
World(c, d, q) == [c |-> c, d |-> d, q |-> q, threw |-> FALSE]

----------------------------------------------------------------------------
(* Helpers of an instance (closures of initCarousel); r is the root *)

\* `a || b` on strings: the empty string is falsy
OrElse(a, b) == IF a # "" THEN a ELSE b

lockScroll(w, on) ==
  [w EXCEPT !.d.docOverflow = IF on THEN "hidden" ELSE "",
            !.d.bodyOverflow = IF on THEN "hidden" ELSE ""]

\* a mutant of buildSlides: the gallery first, the project's own image last
buildSlidesMainLast(p) ==
  LET gallery == IF "gallery" \in DOMAIN p THEN p.gallery ELSE <<>>
  IN  [j \in 1..Len(gallery) |->
         [src |-> gallery[j].src,
          alt |-> IF "alt" \in DOMAIN gallery[j] THEN gallery[j].alt ELSE p.alt,
          detail |-> IF "detail" \in DOMAIN gallery[j] THEN gallery[j].detail ELSE p.detail]]
      \o << [src |-> p.src, alt |-> p.alt, detail |-> p.detail] >>

buildSlides(p) ==
  LET main == [src |-> p.src, alt |-> p.alt, detail |-> p.detail]
      gallery == IF "gallery" \in DOMAIN p THEN p.gallery ELSE <<>>
      extras == [j \in 1..Len(gallery) |->
                   [src |-> gallery[j].src,
                    alt |-> IF "alt" \in DOMAIN gallery[j] THEN gallery[j].alt ELSE p.alt,
                    detail |-> IF "detail" \in DOMAIN gallery[j]
                               THEN gallery[j].detail ELSE p.detail]]
  IN  <<main>> \o extras

\* the image requests started for the two wrap-around neighbours of slide i
preloadNeighbors(w, r, i) ==
  LET slides == w.c[r].slides
      idxs == <<clamp(i - 1, Len(slides)), clamp(i + 1, Len(slides))>>
      wanted == SelectSeq(idxs, LAMBDA k : k \in 0..(Len(slides) - 1) /\ slides[k + 1].src # "")
  IN  [w EXCEPT !.c[r].preload = [n \in 1..Len(wanted) |-> slides[wanted[n] + 1].src]]

\* a mutant of updateProgress: the position is written zero-based
updateProgressZeroBased(w, r) ==
  IF "progress" \notin w.c[r].present THEN w
  ELSE [w EXCEPT !.c[r].progress =
          IF Len(w.c[r].slides) > 1
          THEN ToString(w.c[r].currentSlide) \o " / " \o ToString(Len(w.c[r].slides))
          ELSE ""]

updateProgress(w, r) ==
  IF "progress" \notin w.c[r].present THEN w
  ELSE [w EXCEPT !.c[r].progress =
          IF Len(w.c[r].slides) > 1
          THEN ToString(w.c[r].currentSlide + 1) \o " / " \o ToString(Len(w.c[r].slides))
          ELSE ""]

\* a mutant of renderThumbs: the strip is not emptied first
renderThumbsAppend(w, r) ==
  LET slides == w.c[r].slides
  IN  [w EXCEPT !.c[r].thumbs =
          @ \o [n \in 1..Len(slides) |->
                  [src |-> slides[n].src,
                   alt |-> OrElse(slides[n].alt, "Slide " \o ToString(n)),
                   hi |-> (n - 1 = w.c[r].currentSlide),
                   index |-> n - 1]]]

\* the strip is emptied and one button per slide appended; `index` is the i
\* its click listener captured, `hi` whether its overlay carries the ring
renderThumbs(w, r) ==
  LET slides == w.c[r].slides
  IN  [w EXCEPT !.c[r].thumbs =
          [n \in 1..Len(slides) |->
             [src |-> slides[n].src,
              alt |-> OrElse(slides[n].alt, "Slide " \o ToString(n)),
              hi |-> (n - 1 = w.c[r].currentSlide),
              index |-> n - 1]]]

\* a mutant of showSlide: the index asked for is stored, not the wrapped one
showSlideRaw(w, r, index) ==
  LET slides == w.c[r].slides
      safe == clamp(index, Len(slides))
  IN  IF safe \notin 0..(Len(slides) - 1) THEN w
      ELSE LET w1 == [w EXCEPT !.c[r].currentSlide = index,
                               !.c[r].img.opacity = "0",
                               !.q = Append(@, [root |-> r, s |-> slides[safe + 1]])]
           IN  preloadNeighbors(updateProgress(renderThumbs(w1, r), r), r, safe)

\* a mutant of showSlide: the index is stored and the fade started before the
\* slide is looked up
showSlideEager(w, r, index) ==
  LET safe == clamp(index, Len(w.c[r].slides))
      w0 == [w EXCEPT !.c[r].currentSlide = index, !.c[r].img.opacity = "0"]
  IN  IF safe \notin 0..(Len(w.c[r].slides) - 1) THEN w0
      ELSE LET w1 == [w0 EXCEPT !.c[r].currentSlide = safe,
                                !.q = Append(@, [root |-> r, s |-> w.c[r].slides[safe + 1]])]
           IN  preloadNeighbors(updateProgress(renderThumbs(w1, r), r), r, safe)

showSlide(w, r, index) ==
  LET slides == w.c[r].slides
      safe == clamp(index, Len(slides))
  IN  IF safe \notin 0..(Len(slides) - 1) THEN w          \* if (!s) return
      ELSE LET s == slides[safe + 1]
               w1 == [w EXCEPT !.c[r].currentSlide = safe,
                               !.c[r].img.opacity = "0",
                               !.q = Append(@, [root |-> r, s |-> s])]
           IN  preloadNeighbors(updateProgress(renderThumbs(w1, r), r), r, safe)

\* a mutant of frameCallback: the synthesized label counts from zero
frameCallbackZeroBased(w, r, s) ==
  LET c == w.c[r]
      palt == IF HasIndex(c.projects, c.currentProject)
              THEN At(c.projects, c.currentProject).alt ELSE ""
  IN  [w EXCEPT !.c[r].img.src = s.src,
                !.c[r].img.loading = TRUE,
                !.c[r].img.alt = s.alt,
                !.c[r].title = OrElse(palt, OrElse(s.alt, "Image " \o ToString(c.currentSlide))),
                !.c[r].content = [html |-> hasHTML(s.detail), text |-> s.detail],
                !.c[r].img.listeners = @ + 1]

\* the callback showSlide hands to requestAnimationFrame, for the slide s it
\* captured (lines 135-151)
frameCallback(w, r, s) ==
  LET c == w.c[r]
      palt == IF HasIndex(c.projects, c.currentProject)
              THEN At(c.projects, c.currentProject).alt ELSE ""
  IN  [w EXCEPT !.c[r].img.src = s.src,
                !.c[r].img.loading = TRUE,
                !.c[r].img.alt = s.alt,
                !.c[r].title = OrElse(palt, OrElse(s.alt, "Image " \o ToString(c.currentSlide + 1))),
                !.c[r].content = [html |-> hasHTML(s.detail), text |-> s.detail],
                !.c[r].img.listeners = @ + 1]

\* a mutant of onLoad: the listeners are not removed
onLoadKeep(w, r) ==
  IF w.c[r].img.listeners = 0 THEN w
  ELSE [w EXCEPT !.c[r].img.transition = "opacity 150ms ease-out",
                 !.c[r].img.opacity = "1"]

\* the load listeners attached to the image, each run once and removed
onLoad(w, r) ==
  IF w.c[r].img.listeners = 0 THEN w
  ELSE [w EXCEPT !.c[r].img.transition = "opacity 150ms ease-out",
                 !.c[r].img.opacity = "1",
                 !.c[r].img.listeners = 0]

\* a mutant of openProject: the modal is shown before the slides are built
openProjectShowFirst(w, r, projectIndex) ==
  LET w1 == [w EXCEPT !.c[r].currentProject = projectIndex,
                      !.c[r].hidden = FALSE, !.c[r].ariaHidden = "false"]
  IN  IF ~HasIndex(w.c[r].projects, projectIndex) THEN [w1 EXCEPT !.threw = TRUE]
      ELSE LET w2 == [w1 EXCEPT !.c[r].slides = buildSlides(At(w.c[r].projects, projectIndex)),
                                !.c[r].currentSlide = 0,
                                !.c[r].lastFocused = w.d.activeElement,
                                !.d.activeElement = CloseBtn(r)]
           IN  showSlide(lockScroll(w2, TRUE), r, 0)

\* projects[k] of an index that is none reads undefined, and buildSlides then
\* throws a TypeError on p.src: currentProject is already assigned.
openProject(w, r, projectIndex) ==
  LET w1 == [w EXCEPT !.c[r].currentProject = projectIndex]
  IN  IF ~HasIndex(w.c[r].projects, projectIndex) THEN [w1 EXCEPT !.threw = TRUE]
      ELSE LET w2 == [w1 EXCEPT !.c[r].slides = buildSlides(At(w.c[r].projects, projectIndex)),
                                !.c[r].currentSlide = 0,
                                !.c[r].hidden = FALSE, !.c[r].ariaHidden = "false"]
               w3 == lockScroll(w2, TRUE)
               w4 == [w3 EXCEPT !.c[r].lastFocused = w.d.activeElement,
                                !.d.activeElement = CloseBtn(r)]
           IN  showSlide(w4, r, 0)

\* lastFocused?.focus?.() is skipped for null; the body is not focusable, so
\* focus() on it moves nothing, and the focus left on the close control of
\* the modal that was just hidden falls back to the body
closeModal(w, r) ==
  LET w1 == lockScroll([w EXCEPT !.c[r].hidden = TRUE, !.c[r].ariaHidden = "true"], FALSE)
      target == w.c[r].lastFocused
  IN  [w1 EXCEPT !.d.activeElement =
         IF target \notin {Null, Body} THEN target
         ELSE IF @ = CloseBtn(r) THEN Body ELSE @]

next(w, r) == showSlide(w, r, w.c[r].currentSlide + 1)
prev(w, r) == showSlide(w, r, w.c[r].currentSlide - 1)

----------------------------------------------------------------------------
(* Construction and the listeners it binds *)

\* the ten elements initCarousel requires (lines 39-52)
Required ==
  {"data", "modal", "overlay", "close", "image", "title", "content",
   "prev", "next", "thumbs"}

\* a mutant of initCarousel: a payload that does not parse is caught and taken
\* as the empty list
initCarouselCatch(w, r) ==
  IF ~(Required \subseteq w.c[r].present) THEN w
  ELSE [w EXCEPT !.c[r].projects =
                   IF w.c[r].dataText.empty \/ JSONparse(w.c[r].dataText).threw THEN <<>>
                   ELSE JSONparse(w.c[r].dataText).value,
                 !.c[r].bound = TRUE]

\* a mutant of initCarousel: the progress element is required too and the
\* thumbnail strip is not
initCarouselGuard(w, r) ==
  IF ~(((Required \ {"thumbs"}) \cup {"progress"}) \subseteq w.c[r].present) THEN w
  ELSE IF w.c[r].dataText.empty
       THEN [w EXCEPT !.c[r].projects = <<>>, !.c[r].bound = TRUE]
       ELSE IF JSONparse(w.c[r].dataText).threw THEN [w EXCEPT !.threw = TRUE]
            ELSE [w EXCEPT !.c[r].projects = JSONparse(w.c[r].dataText).value,
                           !.c[r].bound = TRUE]

\* initCarousel(root): returns early when a required element is missing; a
\* SyntaxError of JSON.parse leaves it before any listener is added; otherwise
\* every listener of lines 183-229 is bound.
initCarousel(w, r) ==
  IF ~(Required \subseteq w.c[r].present) THEN w
  ELSE IF w.c[r].dataText.empty
       THEN [w EXCEPT !.c[r].projects = <<>>, !.c[r].bound = TRUE]
       ELSE IF JSONparse(w.c[r].dataText).threw THEN [w EXCEPT !.threw = TRUE]
            ELSE [w EXCEPT !.c[r].projects = JSONparse(w.c[r].dataText).value,
                           !.c[r].bound = TRUE]

\* the module's entry point with no currentScript: forEach over the carousel
\* roots in document order, left at the first exception
RECURSIVE initFrom(_, _)
initFrom(w, r) ==
  IF r > Len(w.c) THEN w
  ELSE LET w1 == initCarousel(w, r)
       IN  IF w1.threw THEN w1 ELSE initFrom(w1, r + 1)

\* click listener of open trigger n: Number(raw ?? 0)
openerClick(w, r, n) ==
  LET el == Openers[n]
  IN  openProject(w, r, IF "dataIndex" \in DOMAIN el THEN Number(el.dataIndex) ELSE Num(0))

\* a mutant of keydown: the listener does not look at its own modal
keydownUnguarded(w, r, key) ==
  LET w1 == IF key = "Escape" THEN closeModal(w, r) ELSE w
      w2 == IF key = "ArrowRight" THEN next(w1, r) ELSE w1
  IN  IF key = "ArrowLeft" THEN prev(w2, r) ELSE w2

\* the window keydown listener of instance r
keydown(w, r, key) ==
  IF w.c[r].hidden THEN w
  ELSE LET w1 == IF key = "Escape" THEN closeModal(w, r) ELSE w
           w2 == IF key = "ArrowRight" THEN next(w1, r) ELSE w1
       IN  IF key = "ArrowLeft" THEN prev(w2, r) ELSE w2

touchstart(w, r, t) ==
  [w EXCEPT !.c[r].touching = TRUE, !.c[r].startX = t[1], !.c[r].startY = t[2]]

Abs(x) == IF x < 0 THEN -x ELSE x

\* a mutant of touchend: the threshold is met at exactly 40 units
touchendAtThreshold(w, r, t) ==
  IF ~w.c[r].touching THEN w
  ELSE LET w1 == [w EXCEPT !.c[r].touching = FALSE]
           dx == t[1] - w.c[r].startX
           dy == t[2] - w.c[r].startY
       IN  IF Abs(dx) >= 40 /\ Abs(dx) > Abs(dy)
           THEN (IF dx < 0 THEN next(w1, r) ELSE prev(w1, r))
           ELSE w1

touchend(w, r, t) ==
  IF ~w.c[r].touching THEN w
  ELSE LET w1 == [w EXCEPT !.c[r].touching = FALSE]
           dx == t[1] - w.c[r].startX
           dy == t[2] - w.c[r].startY
       IN  IF Abs(dx) > 40 /\ Abs(dx) > Abs(dy)
           THEN (IF dx < 0 THEN next(w1, r) ELSE prev(w1, r))
           ELSE w1

----------------------------------------------------------------------------
(* State *)

VARIABLES
  carousel,    \* the roots of the page in document order: instance state and DOM
  document,    \* scroll-lock styles and the focused element
  rafQueue,    \* requested animation-frame callbacks, oldest first
  started,     \* the script has run
  everOpened,  \* roots whose openProject has returned normally at least once
  raised,      \* the handler run by the latest step threw (an uncaught exception)
  arg,         \* the inputs the index-wrapping function is tried on
  out          \* its result, once applied

vars == <<carousel, document, rafQueue, started, everOpened, raised, arg, out>>

W == World(carousel, document, rafQueue)

RootIds == 1..Len(carousel)

RECURSIVE Listeners(_, _)
Listeners(c, r) == IF r > Len(c) THEN 0 ELSE c[r].img.listeners + Listeners(c, r + 1)

InFlight(w) == Len(w.q) + Listeners(w.c, 1)

\* the handler's effect becomes the next state
Commit(w) ==
  /\ InFlight(w) <= MaxInFlight
  /\ carousel' = w.c
  /\ document' = w.d
  /\ rafQueue' = w.q
  /\ raised' = w.threw
  /\ UNCHANGED <<arg, out>>

\* a listener runs only if initCarousel bound it
Bound(r) == carousel[r].bound
Has(r, role) == role \in carousel[r].present

Init ==
  /\ carousel \in {<<NewRoot(m, t)>> : m \in Markups, t \in DataTexts}
  /\ document = NewDocument
  /\ rafQueue = <<>>
  /\ started = FALSE
  /\ everOpened = {}
  /\ raised = FALSE
  /\ arg = [i |-> 0, len |-> 0]
  /\ out = [done |-> FALSE, val |-> 0]

RunScript ==
  /\ ~started
  /\ started' = TRUE
  /\ Commit(initFrom(W, 1))
  /\ UNCHANGED everOpened

ClickOpen(r, n) ==
  /\ started /\ Has(r, "open")
  /\ LET w == IF Bound(r) THEN openerClick(W, r, n) ELSE W
     IN  /\ Commit(w)
         /\ everOpened' = IF Bound(r) /\ ~w.threw THEN everOpened \cup {r} ELSE everOpened
  /\ UNCHANGED started

ClickClose(r, role) ==
  /\ started /\ Has(r, role)
  /\ Commit(IF Bound(r) THEN closeModal(W, r) ELSE W)
  /\ UNCHANGED <<started, everOpened>>

ClickNext(r, role) ==
  /\ started /\ Has(r, role)
  /\ Commit(IF Bound(r) THEN next(W, r) ELSE W)
  /\ UNCHANGED <<started, everOpened>>

ClickPrev(r) ==
  /\ started /\ Has(r, "prev")
  /\ Commit(IF Bound(r) THEN prev(W, r) ELSE W)
  /\ UNCHANGED <<started, everOpened>>

ClickThumb(r, n) ==
  /\ started /\ n \in 1..Len(carousel[r].thumbs)
  /\ Commit(showSlide(W, r, carousel[r].thumbs[n].index))
  /\ UNCHANGED <<started, everOpened>>

RECURSIVE keydownFrom(_, _, _)
keydownFrom(w, r, key) ==
  IF r > Len(w.c) THEN w
  ELSE keydownFrom(IF w.c[r].bound THEN keydown(w, r, key) ELSE w, r + 1, key)

KeyDown(key) ==
  /\ started
  /\ Commit(keydownFrom(W, 1, key))
  /\ UNCHANGED <<started, everOpened>>

TouchStart(r, t) ==
  /\ started /\ Has(r, "image")
  /\ Commit(IF Bound(r) THEN touchstart(W, r, t) ELSE W)
  /\ UNCHANGED <<started, everOpened>>

TouchEnd(r, t) ==
  /\ started /\ Has(r, "image")
  /\ Commit(IF Bound(r) THEN touchend(W, r, t) ELSE W)
  /\ UNCHANGED <<started, everOpened>>

\* an animation frame: every queued callback runs, in the order requested
RECURSIVE runFrames(_, _)
runFrames(w, q) ==
  IF q = <<>> THEN w ELSE runFrames(frameCallback(w, Head(q).root, Head(q).s), Tail(q))

Frame ==
  /\ rafQueue # <<>>
  /\ Commit(runFrames([W EXCEPT !.q = <<>>], rafQueue))
  /\ UNCHANGED <<started, everOpened>>

\* the image of root r finishes loading: its load event
ImageLoad(r) ==
  /\ carousel[r].img.loading
  /\ Commit(onLoad([W EXCEPT !.c[r].img.loading = FALSE], r))
  /\ UNCHANGED <<started, everOpened>>

\* the image of root r fails to load: no load event
ImageError(r) ==
  /\ carousel[r].img.loading
  /\ Commit([W EXCEPT !.c[r].img.loading = FALSE])
  /\ UNCHANGED <<started, everOpened>>

\* the user moves the focus (Tab, pointer) to the first open trigger or away
FocusTargets == {Body} \cup {OpenerEl(r, 1) : r \in {x \in RootIds : Has(x, "open")}}

Focus(el) ==
  /\ started /\ el # document.activeElement
  /\ Commit([W EXCEPT !.d.activeElement = el])
  /\ UNCHANGED <<started, everOpened>>

Next ==
  \/ RunScript
  \/ \E r \in RootIds : \E n \in 1..Len(Openers) : ClickOpen(r, n)
  \/ \E r \in RootIds : \E role \in {"overlay", "close"} : ClickClose(r, role)
  \/ \E r \in RootIds : \E role \in {"next", "image"} : ClickNext(r, role)
  \/ \E r \in RootIds : ClickPrev(r)
  \/ \E r \in RootIds : \E n \in DOMAIN carousel[r].thumbs : ClickThumb(r, n)
  \/ \E key \in Keys : KeyDown(key)
  \/ \E r \in RootIds : \E t \in TouchStarts : TouchStart(r, t)
  \/ \E r \in RootIds : \E t \in TouchEnds : TouchEnd(r, t)
  \/ Frame
  \/ \E r \in RootIds : ImageLoad(r)
  \/ \E r \in RootIds : ImageError(r)
  \/ \E el \in FocusTargets : Focus(el)

Spec == Init /\ [][Next]_vars

----------------------------------------------------------------------------
(* The index-wrapping function on its own: tried on every pair of the range *)

PureInit ==
  /\ carousel = <<NewRoot(Roles, [empty |-> TRUE, parses |-> FALSE, value |-> <<>>])>>
  /\ document = NewDocument
  /\ rafQueue = <<>>
  /\ started = FALSE
  /\ everOpened = {}
  /\ raised = FALSE
  /\ arg \in [i : (-MaxIndex)..MaxIndex, len : 0..MaxIndex]
  /\ out = [done |-> FALSE, val |-> 0]

Wrap ==
  /\ ~out.done
  /\ out' = [done |-> TRUE, val |-> clamp(arg.i, arg.len)]
  /\ UNCHANGED <<carousel, document, rafQueue, started, everOpened, raised, arg>>

PureNext == Wrap

PureSpec == PureInit /\ [][PureNext]_vars

----------------------------------------------------------------------------
(* A page with two carousel roots, both with complete markup; the payload   *)
(* of each parses or not.  The user opens projects 0 and 1, closes an open  *)
(* modal with its close control, and presses keys.                          *)

MultiTexts ==
  { [empty |-> FALSE, parses |-> FALSE, value |-> <<>>],
    [empty |-> FALSE, parses |-> TRUE, value |-> SampleProjects] }

\* the open triggers with data-index "0" and "1"
MultiOpeners == {2, 3}

MultiInit ==
  /\ carousel \in {<<NewRoot(Roles, t1), NewRoot(Roles, t2)>> : t1 \in MultiTexts, t2 \in MultiTexts}
  /\ document = NewDocument
  /\ rafQueue = <<>>
  /\ started = FALSE
  /\ everOpened = {}
  /\ raised = FALSE
  /\ arg = [i |-> 0, len |-> 0]
  /\ out = [done |-> FALSE, val |-> 0]

MultiNext ==
  \/ RunScript
  \/ \E r \in RootIds : \E n \in MultiOpeners : ClickOpen(r, n)
  \/ \E r \in RootIds : ~carousel[r].hidden /\ ClickClose(r, "close")
  \/ \E key \in Keys : KeyDown(key)
  \/ Frame
  \/ \E r \in RootIds : ImageLoad(r)

MultiSpec == MultiInit /\ [][MultiNext]_vars

----------------------------------------------------------------------------
(* One complete root with the sample payload, whose images all load: every  *)
(* requested animation frame is delivered and every source that was set     *)
(* fires its load event (weak fairness); the user may stop at any time.     *)

LiveRoots == {1}

LiveInit ==
  /\ carousel = <<NewRoot(Roles, [empty |-> FALSE, parses |-> TRUE, value |-> SampleProjects])>>
  /\ document = NewDocument
  /\ rafQueue = <<>>
  /\ started = FALSE
  /\ everOpened = {}
  /\ raised = FALSE
  /\ arg = [i |-> 0, len |-> 0]
  /\ out = [done |-> FALSE, val |-> 0]

\* what the user does: open, close, step
LiveUser ==
  \/ \E r \in LiveRoots : \E n \in MultiOpeners : ClickOpen(r, n)
  \/ \E r \in LiveRoots : ~carousel[r].hidden /\ ClickClose(r, "close")
  \/ \E r \in LiveRoots : ClickNext(r, "next")
  \/ \E r \in LiveRoots : ClickPrev(r)

LiveNext ==
  \/ RunScript
  \/ LiveUser
  \/ Frame
  \/ \E r \in LiveRoots : ImageLoad(r)

LiveSpec ==
  /\ LiveInit /\ [][LiveNext]_vars
  /\ WF_vars(Frame)
  /\ \A r \in LiveRoots : WF_vars(ImageLoad(r))

----------------------------------------------------------------------------
(* Claims *)

Indices == (-MaxIndex)..MaxIndex
ValidIndex(r) == 0..(Len(carousel[r].projects) - 1)

\* C1: once a project has been opened, currentSlide is a valid index into
\* slides (0 <= currentSlide < slides.length) in every reachable state,
\* whatever sequence of opens, thumbnail activations, next, prev and closes
\* led there.
C1_CurrentSlideInRange ==
  \A r \in RootIds :
    r \in everOpened =>
      /\ carousel[r].currentSlide >= 0
      /\ carousel[r].currentSlide < Len(carousel[r].slides)

\* C1 witness: a project of three slides was opened, navigation reached its
\* last slide, and the modal was closed again.
C1_Witness ==
  /\ 1 \in everOpened
  /\ Len(carousel[1].slides) = 3
  /\ carousel[1].currentSlide = 2
  /\ carousel[1].hidden

\* C2: whenever the modal is open (not hidden), slides is non-empty, after
\* any sequence of open-trigger clicks (any index), navigation and closes.
C2_OpenModalHasSlides ==
  \A r \in RootIds : ~carousel[r].hidden => carousel[r].slides # <<>>

\* C2 witness: the modal is open and the latest open-trigger click carried an
\* index that is none (its handler threw).
C2_Witness ==
  /\ ~carousel[1].hidden
  /\ raised
  /\ ~HasIndex(carousel[1].projects, carousel[1].currentProject)

\* C3: for every integer i, negative ones below -len included, and every
\* len > 0 the wrapped index is in [0, len), is periodic with period len, and
\* equals ((i % len) + len) % len (the mathematical i mod len).
C3_WrapAllIntegers ==
  (out.done /\ arg.len > 0) =>
    /\ out.val \in 0..(arg.len - 1)
    /\ out.val = arg.i % arg.len
    /\ clamp(arg.i + arg.len, arg.len) = out.val

\* C4: from every reachable state (modal closed, or another project open),
\* opening a valid project index k sets currentProject to k, currentSlide to
\* 0, and slides to: the project's own image first, then its gallery entries
\* in order, alt and detail taken from the project where the entry has none.
C4_OpenRebuildsSlides ==
  \A r \in RootIds : \A k \in ValidIndex(r) :
    carousel[r].bound =>
      LET w == openProject(W, r, Num(k))
          p == carousel[r].projects[k + 1]
          g == IF "gallery" \in DOMAIN p THEN p.gallery ELSE <<>>
          sl == w.c[r].slides
      IN  /\ ~w.threw
          /\ w.c[r].currentProject = Num(k)
          /\ w.c[r].currentSlide = 0
          /\ Len(sl) = 1 + Len(g)
          /\ sl[1].src = p.src /\ sl[1].alt = p.alt /\ sl[1].detail = p.detail
          /\ \A j \in 1..Len(g) :
               /\ sl[j + 1].src = g[j].src
               /\ sl[j + 1].alt = (IF "alt" \in DOMAIN g[j] THEN g[j].alt ELSE p.alt)
               /\ sl[j + 1].detail =
                    (IF "detail" \in DOMAIN g[j] THEN g[j].detail ELSE p.detail)

\* C4 witness: project 1 (a gallery of two) is open on its first slide while
\* the focus recorded at its opening is the close control, i.e. it was opened
\* while a project was already open.
C4_Witness ==
  /\ ~carousel[1].hidden
  /\ carousel[1].currentProject = Num(1)
  /\ carousel[1].currentSlide = 0
  /\ Len(carousel[1].slides) = 3
  /\ carousel[1].slides[1].src = "b.jpg"
  /\ carousel[1].lastFocused = CloseBtn(1)

\* C5: from every reachable state (no slides, one slide, several), next()
\* then prev() leaves currentSlide where it was, and so does prev() then next().
C5_NextPrevRoundTrip ==
  \A r \in RootIds :
    carousel[r].bound =>
      /\ prev(next(W, r), r).c[r].currentSlide = carousel[r].currentSlide
      /\ next(prev(W, r), r).c[r].currentSlide = carousel[r].currentSlide

\* C5 witness: on the last of three slides next() wraps to slide 0.
C5_Witness ==
  /\ carousel[1].bound
  /\ Len(carousel[1].slides) = 3
  /\ carousel[1].currentSlide = 2
  /\ next(W, 1).c[1].currentSlide = 0

\* C6: an open request with an out-of-range project index never raises, and
\* after any sequence of open requests currentProject is a valid index of a
\* non-empty project list and, while the modal is open, slides is
\* buildSlides(projects[currentProject]).
C6_OpenOutOfRangeResolved ==
  \A r \in RootIds :
    carousel[r].bound =>
      /\ ~raised
      /\ carousel[r].projects # <<>> =>
           HasIndex(carousel[r].projects, carousel[r].currentProject)
      /\ (~carousel[r].hidden /\ HasIndex(carousel[r].projects, carousel[r].currentProject)) =>
           carousel[r].slides = buildSlides(At(carousel[r].projects, carousel[r].currentProject))

\* C7: a click on an open trigger whose index attribute is absent or does not
\* parse as a number calls openProject(0): it opens project 0 and raises
\* nothing (the project list being non-empty).
C7_UnparseableIndexOpensZero ==
  \A r \in RootIds : \A n \in 1..Len(Openers) :
    ( /\ carousel[r].bound
      /\ carousel[r].projects # <<>>
      /\ ("dataIndex" \notin DOMAIN Openers[n] \/ Number(Openers[n].dataIndex).nan) ) =>
        /\ openerClick(W, r, n) = openProject(W, r, Num(0))
        /\ ~openerClick(W, r, n).threw
        /\ openerClick(W, r, n).c[r].currentProject = Num(0)
        /\ ~openerClick(W, r, n).c[r].hidden

\* C8: with an empty slide list, showSlide(i) for every i, next() and prev()
\* resolve the index to 0 and change nothing: instance state, modal, image,
\* thumbnail strip, progress text, document, and no animation frame requested.
C8_EmptySlidesNoOp ==
  \A r \in RootIds :
    (carousel[r].bound /\ carousel[r].slides = <<>>) =>
      /\ \A i \in Indices :
           /\ clamp(i, Len(carousel[r].slides)) = 0
           /\ showSlide(W, r, i) = W
      /\ next(W, r) = W
      /\ prev(W, r) = W

\* C8 witness: an instance with projects but no slides yet, after a failed
\* open (currentProject is no index), with a touch in progress on the image.
C8_Witness ==
  /\ carousel[1].bound
  /\ carousel[1].slides = <<>>
  /\ carousel[1].projects # <<>>
  /\ ~HasIndex(carousel[1].projects, carousel[1].currentProject)
  /\ carousel[1].touching

\* C9: a root lacking one of the ten required elements is never bound and
\* nothing raised; its instance state and DOM stay as they were at page load
\* through every later event.  A root lacking only the progress element or
\* the open triggers, with a payload that is empty or parses, is bound.
C9_MissingElementDeclines ==
  \A r \in RootIds :
    started =>
      /\ ~(Required \subseteq carousel[r].present) =>
           /\ ~carousel[r].bound
           /\ ~raised
           /\ carousel[r] = NewRoot(carousel[r].present, carousel[r].dataText)
           /\ rafQueue = <<>>
           /\ document.docOverflow = "" /\ document.bodyOverflow = ""
      /\ ( /\ Required \subseteq carousel[r].present
           /\ (carousel[r].dataText.empty \/ carousel[r].dataText.parses) ) =>
           carousel[r].bound

\* C9 witness: the script has run on a root that has open triggers and a
\* good payload but no thumbnail strip, and the user has focused a trigger.
C9_Witness ==
  /\ started
  /\ carousel[1].present = Roles \ {"thumbs"}
  /\ carousel[1].dataText.parses /\ carousel[1].dataText.value # <<>>
  /\ document.activeElement = OpenerEl(1, 1)

\* C10: with a payload that is present but does not parse, no input handler
\* is ever bound: the instance is not left bound to an empty project list,
\* and no event changes its state or DOM.
C10_BadPayloadBindsNothing ==
  \A r \in RootIds :
    ( /\ started
      /\ Required \subseteq carousel[r].present
      /\ ~carousel[r].dataText.empty
      /\ ~carousel[r].dataText.parses ) =>
        /\ ~carousel[r].bound
        /\ carousel[r] = NewRoot(carousel[r].present, carousel[r].dataText)
        /\ rafQueue = <<>>

\* C10 witness: the script has just run on a complete root whose payload did
\* not parse, and the SyntaxError surfaced.
C10_Witness ==
  /\ started
  /\ raised
  /\ carousel[1].present = Roles
  /\ ~carousel[1].dataText.empty /\ ~carousel[1].dataText.parses

C13_FocusRestored ==
  \A r \in RootIds :
    ( /\ carousel[r].bound /\ carousel[r].hidden
      /\ document.activeElement \notin {Body, Null} ) =>
        \A n \in 1..Len(Openers) : \A m \in 1..Len(Openers) :
          LET first == openerClick(W, r, n)
              again == openerClick(next(first, r), r, m)
              closed == closeModal(again, r)
          IN  (~first.threw /\ ~again.threw) =>
                /\ ~closed.threw
                /\ closeModal(next(first, r), r).d.activeElement = document.activeElement
                /\ closed.d.activeElement = document.activeElement

\* C15: once a project has been opened and a progress element exists, the
\* progress text is "<currentSlide+1> / <slides.length>" when there are
\* several slides and empty when there is one, in every reachable state.
C15_ProgressText ==
  \A r \in RootIds :
    (r \in everOpened /\ "progress" \in carousel[r].present) =>
      carousel[r].progress =
        (IF Len(carousel[r].slides) > 1
         THEN ToString(carousel[r].currentSlide + 1) \o " / "
              \o ToString(Len(carousel[r].slides))
         ELSE "")

\* C15 witness: the second of three slides is shown, then project 0 (a single
\* slide) would clear the text.
C15_Witness ==
  /\ 1 \in everOpened
  /\ carousel[1].progress = "2 / 3"
  /\ carousel[1].currentSlide = 1
  /\ openProject(W, 1, Num(0)).c[1].progress = ""

\* C16: whenever a load event would run a completion handler (making the
\* image opaque), the image source is that of slides[currentSlide] and no
\* source swap of a newer showSlide is still pending.
C16_NoStaleFadeIn ==
  \A r \in RootIds :
    (carousel[r].img.loading /\ carousel[r].img.listeners > 0) =>
      /\ carousel[r].currentSlide \in 0..(Len(carousel[r].slides) - 1)
      /\ carousel[r].img.src = carousel[r].slides[carousel[r].currentSlide + 1].src
      /\ \A k \in 1..Len(rafQueue) : rafQueue[k].root # r

\* C18: after a project was opened and with currentProject a valid index, in
\* every state with no animation-frame callback pending the image shows
\* slides[currentSlide] (source and alt) and the title is the project's alt,
\* else the slide's alt, else "Image <currentSlide+1>".
C18_SettledDisplay ==
  \A r \in RootIds :
    ( /\ r \in everOpened
      /\ HasIndex(carousel[r].projects, carousel[r].currentProject)
      /\ \A k \in 1..Len(rafQueue) : rafQueue[k].root # r ) =>
        LET s == carousel[r].slides[carousel[r].currentSlide + 1]
            p == At(carousel[r].projects, carousel[r].currentProject)
        IN  /\ carousel[r].img.src = s.src
            /\ carousel[r].img.alt = s.alt
            /\ carousel[r].title =
                 (IF p.alt # "" THEN p.alt
                  ELSE IF s.alt # "" THEN s.alt
                  ELSE "Image " \o ToString(carousel[r].currentSlide + 1))

\* C18 witness: the frames have run after project 1 (empty alt) was opened
\* and moved to its second slide, whose alt is empty too.
C18_Witness ==
  /\ 1 \in everOpened
  /\ rafQueue = <<>>
  /\ carousel[1].currentProject = Num(1)
  /\ carousel[1].currentSlide = 1
  /\ carousel[1].title = "Image 2"
  /\ carousel[1].img.src = "b1.jpg"

\* C20: once a project has been opened, the thumbnail strip holds one control
\* per slide in slide order, exactly the control at currentSlide is
\* highlighted, and control i calls showSlide(i) with i an index of the
\* current slides.
C20_ThumbsMatchSlides ==
  \A r \in RootIds :
    r \in everOpened =>
      /\ Len(carousel[r].thumbs) = Len(carousel[r].slides)
      /\ \A n \in 1..Len(carousel[r].thumbs) :
           /\ carousel[r].thumbs[n].src = carousel[r].slides[n].src
           /\ carousel[r].thumbs[n].index = n - 1
           /\ carousel[r].thumbs[n].index \in 0..(Len(carousel[r].slides) - 1)
           /\ carousel[r].thumbs[n].hi <=> (n - 1 = carousel[r].currentSlide)
           /\ showSlide(W, r, carousel[r].thumbs[n].index).c[r].currentSlide = n - 1

\* C20 witness: project 0 (one slide) is open after project 1 (three slides)
\* had been shown on its last slide: the strip holds one control.
C20_Witness ==
  /\ 1 \in everOpened
  /\ ~carousel[1].hidden
  /\ carousel[1].currentProject = Num(0)
  /\ Len(carousel[1].thumbs) = 1
  /\ carousel[1].thumbs[1].hi
  /\ carousel[1].img.src = "b2.jpg"

\* C11: a key event changes an instance only while that instance's own modal
\* is open.  The listener of an instance whose modal is closed changes
\* nothing for any key, also while another instance's modal is open, and the
\* whole page-wide event leaves that instance's state and DOM as they were.
\* With its modal open, Escape is closeModal, ArrowRight is next(), ArrowLeft
\* is prev(), and any other key changes nothing.
C11_KeysOnlyWhenOpen ==
  \A r \in RootIds : \A key \in Keys :
    carousel[r].bound =>
      /\ carousel[r].hidden =>
           /\ keydown(W, r, key) = W
           /\ keydownFrom(W, 1, key).c[r] = carousel[r]
      /\ ~carousel[r].hidden =>
           keydown(W, r, key) =
             (IF key = "Escape" THEN closeModal(W, r)
              ELSE IF key = "ArrowRight" THEN next(W, r)
              ELSE IF key = "ArrowLeft" THEN prev(W, r)
              ELSE W)

\* C11 witness: the modal of root 1 is closed after it showed three slides,
\* while the modal of root 2 is open.
C11_Witness ==
  /\ Len(carousel) = 2
  /\ carousel[1].bound /\ carousel[1].hidden /\ Len(carousel[1].slides) = 3
  /\ carousel[2].bound /\ ~carousel[2].hidden

\* C14: in every reachable state of a page with one or more instances, the
\* background scroll is locked whenever at least one modal is open.
C14_ScrollLockedWhileOpen ==
  (\E r \in RootIds : ~carousel[r].hidden) =>
    /\ document.docOverflow = "hidden"
    /\ document.bodyOverflow = "hidden"

\* C17: after the document-wide entry point has run, every root with complete
\* markup and a payload that parses is initialized and its open triggers open
\* its modal, whatever other root's payload failed to parse and wherever that
\* root stands in document order.
C17_OtherRootsInitialized ==
  \A r \in RootIds :
    ( /\ started
      /\ Required \subseteq carousel[r].present
      /\ carousel[r].dataText.parses /\ carousel[r].dataText.value # <<>> ) =>
        /\ carousel[r].bound
        /\ "open" \in carousel[r].present => ~openerClick(W, r, 2).c[r].hidden

\* the image of every opened root is opaque, with no load listener attached
Settled ==
  \A r \in LiveRoots :
    r \in everOpened => carousel[r].img.opacity = "1" /\ carousel[r].img.listeners = 0

\* C19: a showSlide on a non-empty slide list makes the image transparent at
\* once; the image leaves transparency only in a load event that runs the
\* attached completion handlers and detaches them all (so each runs at most
\* once, and without a load event the image stays transparent); and when
\* frames are delivered, set sources load and the user eventually stops, the
\* image ends opaque for good with no load listener left.
C19_FadeCompletes ==
  /\ [](\A r \in LiveRoots :
          (carousel[r].bound /\ carousel[r].slides # <<>>) =>
            /\ next(W, r).c[r].img.opacity = "0"
            /\ prev(W, r).c[r].img.opacity = "0"
            /\ showSlide(W, r, 0).c[r].img.opacity = "0")
  /\ [][\A r \in LiveRoots :
          (carousel[r].img.opacity = "0" /\ carousel'[r].img.opacity # "0") =>
            /\ carousel[r].img.loading /\ ~carousel'[r].img.loading
            /\ carousel[r].img.listeners > 0 /\ carousel'[r].img.listeners = 0
            /\ carousel'[r].img.opacity = "1"]_vars
  /\ (<>[][~LiveUser]_vars) => <>[]Settled

\* C19 witness: after a navigation on three slides the frame ran and the load
\* event made the image opaque again, no listener left.
C19_Witness ==
  /\ 1 \in everOpened
  /\ Len(carousel[1].slides) = 3 /\ carousel[1].currentSlide = 2
  /\ rafQueue = <<>>
  /\ carousel[1].img.src = "b2.jpg"
  /\ carousel[1].img.opacity = "1"
  /\ carousel[1].img.listeners = 0
  /\ ~carousel[1].img.loading

====
